---- MODULE Spec2Model ----
(***************************************************************************)
(* A model of the Open Meteo SDK client (package openmeteo): the Client   *)
(* with its buffered-channel semaphore, and GetCurrentWeather as it is    *)
(* run by any number of goroutines sharing one Client.                    *)
(*                                                                         *)
(* A goroutine inside GetCurrentWeather touches shared state only at the  *)
(* select of client.go:108 and at the deferred receive of client.go:110.  *)
(* Everything from the entry to the call of httpClient.Do (validation,    *)
(* select, buildRequestURL, NewRequestWithContext, the transport's first  *)
(* look at the context) is local and is one step, Call; the step that     *)
(* ends the round trip (Do returns, status check, body read or decode,    *)
(* conversion, deferred release) is Respond.  A context ending while the  *)
(* request is in flight is Cancel.                                        *)
(***************************************************************************)
EXTENDS Integers, FiniteSets, Sequences, Bags, TLC

VARIABLES
    baseURL,        \* Client.baseURL, fixed by NewClient and its options
    semaphore,      \* len(c.semaphore): the number of buffered tokens
    calls,          \* bag of the calls blocked in httpClient.Do, each by the state of its ctx
    ret,            \* what the call that returned last returned: (weather, err)
    exchange,       \* what that call got from httpClient.Do and from reading the body
    n,              \* test harness: the number of goroutines the test launches
    launched,       \* test harness: how many of them have called GetCurrentWeather
    successCount,   \* test harness: results with err == nil
    failCount,      \* test harness: results that are *Error of type Validation
    apiResp,        \* converter: the weatherResponse handed to convertToCurrentWeather
    cw,             \* converter: the CurrentWeather it returned
    args,           \* request builder: the coordinates GetCurrentWeather was called with
    req,            \* request builder: the *http.Request it built for them
    subject,        \* errors: the error value under examination
    shown,          \* errors: what Error(), Unwrap() and errors.Is said of it
    respBody,       \* decoder: the JSON document of a 200 response
    heap,           \* construction: the http.Client objects and channels allocated so far
    built,          \* construction: the Clients NewClient has returned, in order
    holding         \* construction: per Client, the calls that hold one of its slots

vars == <<baseURL, semaphore, calls, ret, exchange, n, launched, successCount, failCount, apiResp, cw,
          args, req, subject, shown, respBody, heap, built, holding>>

client == <<baseURL, semaphore, calls, ret, exchange>>

harness == <<n, launched, successCount, failCount>>

converter == <<apiResp, cw>>

builder == <<args, req>>

errors == <<subject, shown>>

construction == <<heap, built, holding>>

\* what the steps of GetCurrentWeather on the one Client leave alone
elsewhere == <<harness, converter, builder, errors, respBody, construction>>

-----------------------------------------------------------------------------
(* Constants of the package *)

maxConcurrent == 10

defaultBaseURL == "https://api.open-meteo.com/v1"

ErrorTypeValidation == "ErrorTypeValidation"

ErrorTypeNetwork == "ErrorTypeNetwork"

ErrorTypeAPI == "ErrorTypeAPI"

ErrorTypes == {ErrorTypeValidation, ErrorTypeNetwork, ErrorTypeAPI}

-----------------------------------------------------------------------------
(* float64 coordinates: whole degrees, and NaN, which compares false with  *)
(* everything.                                                             *)

Float(v) == [nan |-> FALSE, v |-> v]

NaN == [nan |-> TRUE, v |-> 0]

FloatLt(a, b) == ~a.nan /\ ~b.nan /\ a.v < b.v

FloatGt(a, b) == ~a.nan /\ ~b.nan /\ a.v > b.v

Point(lat, lon) == [latitude |-> lat, longitude |-> lon]

\* The coordinates calls are made with: the interior, the bounds and their
\* corners, one step beyond each bound, both beyond, and NaN.
Coordinates ==
    {Point(Float(0), Float(0)),
     Point(Float(90), Float(0)), Point(Float(0 - 90), Float(0)),
     Point(Float(0), Float(180)), Point(Float(0), Float(0 - 180)),
     Point(Float(90), Float(0 - 180)), Point(Float(0 - 90), Float(180)),
     Point(Float(0 - 91), Float(0)), Point(Float(91), Float(0)),
     Point(Float(0), Float(0 - 181)), Point(Float(0), Float(181)),
     Point(Float(91), Float(181)),
     Point(NaN, Float(0)), Point(Float(0), NaN)}

\* fmt.Sprintf("%.2f", x) of a whole number of degrees
Sprintf2f(x) == IF x.v < 0 THEN "-" \o ToString(0 - x.v) \o ".00" ELSE ToString(x.v) \o ".00"

-----------------------------------------------------------------------------
(* Contexts and error values *)

CtxStates == {"live", "canceled", "expired"}

\* ctx.Err() of a context that is done
CtxErr(ctx) == IF ctx = "canceled" THEN "context.Canceled" ELSE "context.DeadlineExceeded"

NilErr == [dyn |-> "nil", Type |-> "", Message |-> "", Cause |-> "nil"]

\* &Error{Type: t, Message: m, Cause: c}
Error(t, m, c) == [dyn |-> "*Error", Type |-> t, Message |-> m, Cause |-> c]

\* an error value of the context package, returned as it is
PlainErr(e) == [dyn |-> "plain", Type |-> "", Message |-> e, Cause |-> "nil"]

\* (an Unwrap that hides the cause)
UnwrapNothing(e) == "nil"

\* errors.go:46-48  func (e *Error) Unwrap() error
Unwrap(e) == e.Cause

\* errors.Is(err, target) for a target of the context package: err is the target,
\* or a *Error whose chain, followed with Unwrap, leads to it
ErrorsIs(err, target) ==
    \/ err.dyn = "plain" /\ err.Message = target
    \/ err.dyn = "*Error" /\ Unwrap(err) = target

NoReturn == [weather |-> "none", err |-> NilErr]

MsgLimit == "concurrent request limit exceeded (" \o ToString(maxConcurrent) \o ")"

MsgLatitude(x) == "invalid latitude: " \o Sprintf2f(x) \o " (must be between -90 and 90)"

MsgLongitude(x) == "invalid longitude: " \o Sprintf2f(x) \o " (must be between -180 and 180)"

-----------------------------------------------------------------------------
(* The pieces of GetCurrentWeather *)

\* (a copy of the longitude bounds)
InvalidLatitudeLoose(latitude) ==
    FloatLt(latitude, Float(0 - 180)) \/ FloatGt(latitude, Float(180))

\* client.go:94  latitude < -90 || latitude > 90
InvalidLatitude(latitude) == FloatLt(latitude, Float(0 - 90)) \/ FloatGt(latitude, Float(90))

\* (bounds taken as exclusive)
InvalidLongitudeStrict(longitude) ==
    ~FloatGt(longitude, Float(0 - 180)) \/ ~FloatLt(longitude, Float(180))

\* client.go:100  longitude < -180 || longitude > 180
InvalidLongitude(longitude) == FloatLt(longitude, Float(0 - 180)) \/ FloatGt(longitude, Float(180))

\* (a channel made one token too large)
ReadyCasesOffByOne(sem, ctx) ==
    (IF sem <= maxConcurrent THEN {"send"} ELSE {}) \cup (IF ctx # "live" THEN {"done"} ELSE {})

\* (a channel made one token too small)
ReadyCasesTooStrict(sem, ctx) ==
    (IF sem < maxConcurrent - 1 THEN {"send"} ELSE {}) \cup (IF ctx # "live" THEN {"done"} ELSE {})

\* The cases of the select of client.go:108 that can proceed: the send on the
\* buffered channel when it is not full, the receive from ctx.Done() when the
\* context has ended.
ReadyCases(sem, ctx) ==
    (IF sem < maxConcurrent THEN {"send"} ELSE {}) \cup (IF ctx # "live" THEN {"done"} ELSE {})

\* (a select without its default case, the send waiting for a slot)
SelectBlocksWhenFull(sem, ctx) ==
    IF ReadyCases(sem, ctx) = {} THEN {"send"} ELSE ReadyCases(sem, ctx)

\* (the fullness test done first, before the context is looked at)
SelectDefaultWhenFull(sem, ctx) ==
    IF "send" \notin ReadyCases(sem, ctx) THEN {"default"} ELSE ReadyCases(sem, ctx)

\* Go's select: one of the ready cases, picked at random; default when none is ready.
Select(sem, ctx) == IF ReadyCases(sem, ctx) = {} THEN {"default"} ELSE ReadyCases(sem, ctx)

\* c.semaphore <- struct{}{}
Acquire(sem) == sem + 1

\* (the deferred receive left out)
ReleaseForgotten(sem) == sem

\* defer func() { <-c.semaphore }()
Release(sem) == sem - 1

\* buildRequestURL: url.Parse(c.baseURL + "/forecast") succeeds
UrlParses(u) == u # "://unparsable"

BaseURLs == {defaultBaseURL, "://unparsable"}

\* (the rejection filed under the wrong kind)
LimitErrorAsNetwork == Error(ErrorTypeNetwork, MsgLimit, "nil")

\* client.go:114-117  the error of the default case
LimitError == Error(ErrorTypeValidation, MsgLimit, "nil")

\* (a snapshot handed out along with the error)
ReturnAlwaysSnapshot(w, e) == ret' = [weather |-> "snapshot", err |-> e]

\* return w, e
Return(w, e) == ret' = [weather |-> w, err |-> e]

\* What a call did and got on its way: requests is the number of times it called
\* httpClient.Do; err and status are what Do returned ("none", 0 when it was not
\* called); read is the error of io.ReadAll on a non-200 body and decode the error
\* of Decode on a 200 body ("none" when that was not done).
Exchange(requests, err, status, read, decode) ==
    [requests |-> requests, err |-> err, status |-> status, read |-> read, decode |-> decode]

NoExchange == Exchange(0, "none", 0, "none", "none")

\* (the cause left out of the wrapping)
ExecuteErrorWithoutCause(cause) ==
    Error(ErrorTypeNetwork, "failed to execute HTTP request", "nil")

\* client.go:143-147  the error for a failed httpClient.Do
ExecuteError(cause) == Error(ErrorTypeNetwork, "failed to execute HTTP request", cause)

\* (a decode failure filed as a transport failure)
DecodeErrorAsNetwork(cause) == Error(ErrorTypeNetwork, "failed to parse JSON response", cause)

\* client.go:163-167  the error for a body that does not decode
DecodeError(cause) == Error(ErrorTypeAPI, "failed to parse JSON response", cause)

\* What httpClient.Do can return for a request whose context is in state ctx when
\* the round trip ends: a transport error, or a response with some status.
StatusOK == 200

Statuses == {StatusOK, 201, 400, 500, 503}

TransportErrors(ctx) ==
    {"connection refused", "Client.Timeout exceeded"} \cup (IF ctx # "live" THEN {CtxErr(ctx)} ELSE {})

DoResults(ctx) ==
    {[err |-> e, status |-> 0] : e \in TransportErrors(ctx)}
        \cup {[err |-> "nil", status |-> s] : s \in Statuses}

\* What json.NewDecoder(resp.Body).Decode can return: nil, a syntax error, or the
\* error of a body read cut short by the client's timeout or by the context, which
\* may end while the body is read.
DecodeResults(ctx) ==
    {"nil", "invalid character", "Client.Timeout exceeded"}
        \cup (IF ctx = "live" THEN {"context.Canceled", "context.DeadlineExceeded"} ELSE {CtxErr(ctx)})

\* What io.ReadAll(resp.Body) can return as its error: nil, or the error of a read
\* cut short by the client's timeout or by the context.
ReadAllResults(ctx) == DecodeResults(ctx) \ {"invalid character"}

\* The bytes io.ReadAll returns: the whole body, or what was read before the error
BodyRead(readErr) == IF readErr = "nil" THEN "Error: Bad Request" ELSE ""

\* (a message that leaves the status code out)
MsgStatusWithoutCode(status, body) == "API returned an error: " \o body

\* fmt.Sprintf("API returned status %d: %s", resp.StatusCode, string(body))
MsgStatus(status, body) == "API returned status " \o ToString(status) \o ": " \o body

\* client.go:154-157  the error for a status other than 200
StatusError(status, body) == Error(ErrorTypeAPI, MsgStatus(status, body), "nil")

\* The record of a call blocked in httpClient.Do, which it has called once
InFlight(ctx) == [pc |-> "Do", ctx |-> ctx, requests |-> 1]

-----------------------------------------------------------------------------
(* convertToCurrentWeather: the decoded weatherResponse to the CurrentWeather.  *)
(* A pointer is the empty sequence (nil) or the sequence of the value it points *)
(* to; a float64 is written as a whole number; a string is the sequence of its  *)
(* characters.                                                                  *)

Nil == <<>>

Ptr(v) == <<v>>

Deref(p) == p[1]

\* (a reading that takes only positive numbers for data)
ValueOrZeroIfNotPositive(p) == IF p # Nil /\ Deref(p) > 0 THEN Deref(p) ELSE 0

\* if p != nil { cw.X = *p }  on a field that starts at its zero value
ValueOrZero(p) == IF p # Nil THEN Deref(p) ELSE 0

\* (the flag read as C reads an int: anything but 0 is true)
IsDayIfNonZero(p) == IF p # Nil THEN Deref(p) # 0 ELSE FALSE

\* client.go:219-221  if IsDay != nil { cw.IsDay = *IsDay == 1 }
IsDayOf(p) == IF p # Nil THEN Deref(p) = 1 ELSE FALSE

DigitChars == <<"0", "1", "2", "3", "4", "5", "6", "7", "8", "9">>

isDigit(str, i) == i <= Len(str) /\ \E d \in 1..10 : DigitChars[d] = str[i]

DigitValue(c) == (CHOOSE d \in 1..10 : DigitChars[d] = c) - 1

\* atoi of str[from..to], all of them digits
atoi(str, from, to) ==
    LET RECURSIVE Acc(_, _)
        Acc(i, v) == IF i > to THEN v ELSE Acc(i + 1, 10 * v + DigitValue(str[i]))
    IN  Acc(from, 0)

\* the time package's isLeap and daysIn
isLeap(year) == year % 4 = 0 /\ (year % 100 # 0 \/ year % 400 = 0)

daysIn(month, year) ==
    IF month = 2 THEN (IF isLeap(year) THEN 29 ELSE 28)
    ELSE IF month \in {4, 6, 9, 11} THEN 30 ELSE 31

Date(year, month, day, hour, minute) ==
    [year |-> year, month |-> month, day |-> day, hour |-> hour, minute |-> minute, loc |-> "UTC"]

\* time.Time{}
ZeroTime == Date(1, 1, 1, 0, 0)

\* t.UTC()
UTC(t) == [t EXCEPT !.loc = "UTC"]

ParseError == [ok |-> FALSE, t |-> ZeroTime]

\* (a parse that checks the shape and not the ranges)
TimeParseNoRanges(value) ==
    IF /\ Len(value) = 16
       /\ \A i \in {1, 2, 3, 4, 6, 7, 9, 10, 12, 13, 15, 16} : isDigit(value, i)
       /\ value[5] = "-" /\ value[8] = "-" /\ value[11] = "T" /\ value[14] = ":"
    THEN [ok |-> TRUE,
          t |-> Date(atoi(value, 1, 4), atoi(value, 6, 7), atoi(value, 9, 10),
                     atoi(value, 12, 13), atoi(value, 15, 16))]
    ELSE ParseError

\* time.Parse("2006-01-02T15:04", value): the value is consumed from the left, one
\* element of the layout after the other: four digits of year, "-", two digits of
\* month (1..12), "-", two digits of day, "T", one or two digits of hour (0..23),
\* ":", two digits of minute (0..59), and nothing after; then the day is checked
\* against the month.  No zone in the layout: the time is in UTC.
TimeParse(value) ==
    IF ~(Len(value) >= 4 /\ \A i \in 1..4 : isDigit(value, i)) THEN ParseError
    ELSE IF ~(Len(value) >= 5 /\ value[5] = "-") THEN ParseError
    ELSE IF ~(isDigit(value, 6) /\ isDigit(value, 7)) THEN ParseError
    ELSE IF atoi(value, 6, 7) \notin 1..12 THEN ParseError
    ELSE IF ~(Len(value) >= 8 /\ value[8] = "-") THEN ParseError
    ELSE IF ~(isDigit(value, 9) /\ isDigit(value, 10)) THEN ParseError
    ELSE IF ~(Len(value) >= 11 /\ value[11] = "T") THEN ParseError
    ELSE IF ~isDigit(value, 12) THEN ParseError
    ELSE LET h == IF isDigit(value, 13) THEN 13 ELSE 12     \* where the hour ends
         IN  IF atoi(value, 12, h) \notin 0..23 THEN ParseError
             ELSE IF ~(Len(value) >= h + 1 /\ value[h + 1] = ":") THEN ParseError
             ELSE IF ~(isDigit(value, h + 2) /\ isDigit(value, h + 3)) THEN ParseError
             ELSE IF atoi(value, h + 2, h + 3) \notin 0..59 THEN ParseError
             ELSE IF Len(value) > h + 3 THEN ParseError
             ELSE IF atoi(value, 9, 10) \notin 1..daysIn(atoi(value, 6, 7), atoi(value, 1, 4))
                  THEN ParseError
             ELSE [ok |-> TRUE,
                   t |-> Date(atoi(value, 1, 4), atoi(value, 6, 7), atoi(value, 9, 10),
                              atoi(value, 12, h), atoi(value, h + 2, h + 3))]

\* client.go:202-207
TimeOf(p) == IF p # Nil /\ TimeParse(Deref(p)).ok THEN UTC(TimeParse(Deref(p)).t) ELSE ZeroTime

convertToCurrentWeather(r) ==
    [Latitude            |-> r.Latitude,
     Longitude           |-> r.Longitude,
     Time                |-> TimeOf(r.CurrentWeather.Time),
     Temperature         |-> ValueOrZero(r.CurrentWeather.Temperature),
     RelativeHumidity    |-> ValueOrZero(r.CurrentWeather.RelativeHumidity),
     ApparentTemperature |-> ValueOrZero(r.CurrentWeather.ApparentTemperature),
     IsDay               |-> IsDayOf(r.CurrentWeather.IsDay),
     Precipitation       |-> ValueOrZero(r.CurrentWeather.Precipitation),
     Rain                |-> ValueOrZero(r.CurrentWeather.Rain),
     Showers             |-> ValueOrZero(r.CurrentWeather.Showers),
     Snowfall            |-> ValueOrZero(r.CurrentWeather.Snowfall),
     WeatherCode         |-> ValueOrZero(r.CurrentWeather.Weathercode),
     CloudCover          |-> ValueOrZero(r.CurrentWeather.CloudCover),
     SeaLevelPressure    |-> ValueOrZero(r.CurrentWeather.PressureMsl),
     SurfacePressure     |-> ValueOrZero(r.CurrentWeather.SurfacePressure),
     WindSpeed           |-> ValueOrZero(r.CurrentWeather.Windspeed),
     WindDirection       |-> ValueOrZero(r.CurrentWeather.Winddirection),
     WindGusts           |-> ValueOrZero(r.CurrentWeather.WindGusts)]

\* The nullable numeric fields of currentWeatherResponse, in the order of the
\* copies of client.go:210-254
NumericFields ==
    <<"Temperature", "RelativeHumidity", "ApparentTemperature", "Precipitation", "Rain",
      "Showers", "Snowfall", "Weathercode", "CloudCover", "PressureMsl", "SurfacePressure",
      "Windspeed", "Winddirection", "WindGusts">>

\* A value for the k-th numeric field, different for every field
SampleValue(k) == 100 + k

AllNumbersNil == [f \in {NumericFields[k] : k \in 1..Len(NumericFields)} |-> Nil]

AllNumbersSet ==
    [f \in {NumericFields[k] : k \in 1..Len(NumericFields)} |->
        Ptr(SampleValue(CHOOSE k \in 1..Len(NumericFields) : NumericFields[k] = f))]

\* The numeric parts of the responses converted: nothing reported, everything
\* reported, one field alone (a sample, its negative, zero), all but one field
NumericParts ==
    {AllNumbersNil, AllNumbersSet}
        \cup {[AllNumbersNil EXCEPT ![NumericFields[k]] = Ptr(v)] :
                    k \in 1..Len(NumericFields), v \in {0}}
        \cup {[AllNumbersNil EXCEPT ![NumericFields[k]] = Ptr(SampleValue(k))] :
                    k \in 1..Len(NumericFields)}
        \cup {[AllNumbersNil EXCEPT ![NumericFields[k]] = Ptr(0 - SampleValue(k))] :
                    k \in 1..Len(NumericFields)}
        \cup {[AllNumbersSet EXCEPT ![NumericFields[k]] = Nil] : k \in 1..Len(NumericFields)}

IsDayValues == {Nil, Ptr(0), Ptr(1), Ptr(2), Ptr(0 - 1)}

TwoDigits(k) == <<DigitChars[(k \div 10) + 1], DigitChars[(k % 10) + 1]>>

FourDigits(k) == TwoDigits(k \div 100) \o TwoDigits(k % 100)

\* "YYYY-MM-DDTHH:MM" of a date and time of day
Format(t) ==
    FourDigits(t.year) \o <<"-">> \o TwoDigits(t.month) \o <<"-">> \o TwoDigits(t.day)
        \o <<"T">> \o TwoDigits(t.hour) \o <<":">> \o TwoDigits(t.minute)

\* the same with the hour written without its leading zero
FormatShortHour(t) ==
    FourDigits(t.year) \o <<"-">> \o TwoDigits(t.month) \o <<"-">> \o TwoDigits(t.day)
        \o <<"T", DigitChars[t.hour + 1], ":">> \o TwoDigits(t.minute)

\* Dates and times of day that exist
Instants ==
    {Date(2025, 12, 29, 10, 0), Date(2024, 2, 29, 23, 59), Date(2000, 2, 29, 0, 0),
     Date(1, 1, 1, 0, 0), Date(2025, 1, 5, 9, 7), Date(0, 6, 30, 12, 30)}

\* and some that do not
NonInstants ==
    {Date(2025, 13, 1, 0, 0), Date(2025, 0, 10, 0, 0), Date(2025, 12, 0, 0, 0),
     Date(2025, 2, 29, 10, 0), Date(1900, 2, 29, 10, 0), Date(2025, 4, 31, 10, 0),
     Date(2025, 12, 29, 24, 0), Date(2025, 12, 29, 10, 60)}

\* Texts that are not of the layout
Malformed(t) ==
    {Format(t) \o <<":", "0", "0">>, Format(t) \o <<"Z">>, SubSeq(Format(t), 1, 15),
     SubSeq(Format(t), 1, 10), [Format(t) EXCEPT ![11] = " "], SubSeq(Format(t), 3, 16),
     <<>>, <<"n", "o", "w">>}

TimeValues ==
    {Nil} \cup {Ptr(Format(t)) : t \in Instants \cup NonInstants}
          \cup {Ptr(FormatShortHour(Date(2025, 1, 5, 9, 7)))}
          \cup {Ptr(x) : x \in Malformed(Date(2025, 12, 29, 10, 0))}

WireResponses ==
    {[Latitude |-> 5252, Longitude |-> 1341,
      CurrentWeather |-> [f \in DOMAIN num \cup {"Time", "IsDay"} |->
                            IF f = "Time" THEN time ELSE IF f = "IsDay" THEN day ELSE num[f]]] :
        num \in NumericParts, day \in IsDayValues, time \in TimeValues}

\* var apiResp weatherResponse, before anything is decoded into it
NoResponse ==
    [Latitude |-> 0, Longitude |-> 0,
     CurrentWeather |-> [f \in DOMAIN AllNumbersNil \cup {"Time", "IsDay"} |-> Nil]]

\* no *CurrentWeather yet
NoSnapshot == Nil

-----------------------------------------------------------------------------
(* The request of a call: buildRequestURL and http.NewRequestWithContext *)

\* strconv.FormatFloat(x, 'f', -1, 64) of a whole number of degrees, or of NaN
FormatFloat(x) ==
    IF x.nan THEN "NaN" ELSE IF x.v < 0 THEN "-" \o ToString(0 - x.v) ELSE ToString(x.v)

\* url.Values of a URL without a query
NoValues == [k \in {} |-> ""]

\* url.Values.Set(key, value)
Set(q, key, value) == [k \in DOMAIN q \cup {key} |-> IF k = key THEN value ELSE q[k]]

\* url.Values.Get(key): the empty string for a key that is not there
Get(q, key) == IF key \in DOMAIN q THEN q[key] ELSE ""

\* client.go:176-192  buildRequestURL: the URL as its path and its query values,
\* or the error of url.Parse
buildRequestURL(base, latitude, longitude) ==
    IF ~UrlParses(base)
    THEN [err |-> "parse error", path |-> "", query |-> NoValues]
    ELSE [err |-> "nil",
          path |-> base \o "/forecast",
          query |-> Set(Set(Set(Set(Set(Set(NoValues,
                        "latitude", FormatFloat(latitude)),
                        "longitude", FormatFloat(longitude)),
                        "current_weather", "true"),
                        "temperature_unit", "celsius"),
                        "windspeed_unit", "ms"),
                        "precipitation_unit", "mm")]

\* client.go:131  http.NewRequestWithContext(ctx, http.MethodGet, reqURL, nil)
NewRequest(u) == [state |-> "built", method |-> "GET", path |-> u.path, query |-> u.query]

NoRequest == [state |-> "none", method |-> "", path |-> "", query |-> NoValues]

\* the call returned at client.go:122-128, before any request was built
FailedRequest == [state |-> "failed", method |-> "", path |-> "", query |-> NoValues]

\* The base URLs requests are built on: the default, a test server's, a bad one
RequestBaseURLs == BaseURLs \cup {"http://127.0.0.1:8080"}

\* The coordinates requests are built for: every pair of these latitudes and longitudes
RequestPoints ==
    {Point(Float(lat), Float(lon)) : lat \in {0 - 90, 0 - 45, 0, 52, 90},
                                     lon \in {0 - 180, 0 - 13, 0, 13, 180}}

NoArgs == Point(Float(0), Float(0))

-----------------------------------------------------------------------------
(* The body of a 200 response and its decoding, json.NewDecoder(...).Decode *)

\* JSON values: null, a number, a string, an object (its members by key)
JNull == [kind |-> "null", num |-> 0, str |-> <<>>, members |-> <<>>]

JNum(v) == [kind |-> "number", num |-> v, str |-> <<>>, members |-> <<>>]

JStr(chars) == [kind |-> "string", num |-> 0, str |-> chars, members |-> <<>>]

JObj(m) == [kind |-> "object", num |-> 0, str |-> <<>>, members |-> m]

\* weather.go:74-91  the json tags of currentWeatherResponse, by field
Tags ==
    [Time                |-> "time",
     Temperature         |-> "temperature_2m",
     Windspeed           |-> "wind_speed_10m",
     Winddirection       |-> "wind_direction_10m",
     Weathercode         |-> "weather_code",
     IsDay               |-> "is_day",
     RelativeHumidity    |-> "relative_humidity_2m",
     ApparentTemperature |-> "apparent_temperature",
     Precipitation       |-> "precipitation",
     Rain                |-> "rain",
     Showers             |-> "showers",
     Snowfall            |-> "snowfall",
     CloudCover          |-> "cloud_cover",
     PressureMsl         |-> "pressure_msl",
     SurfacePressure     |-> "surface_pressure",
     WindGusts           |-> "wind_gusts_10m"]

\* the kind of JSON value a field decodes from: *string for Time, numbers elsewhere
KindOf(f) == IF f = "Time" THEN "string" ELSE "number"

\* the member the decoder finds for a key: a key that is absent and a key whose
\* value is null both leave the field as it is
Member(m, key) == IF key \in DOMAIN m THEN m[key] ELSE JNull

\* Decoding a document into a weatherResponse whose CurrentWeather field is
\* tagged with `key`: members are matched by tag, members with no field are
\* skipped, a member of the wrong kind is an error.
DecodeAt(doc, key) ==
    LET top == doc.members
        lat == Member(top, "latitude")
        lon == Member(top, "longitude")
        cur == Member(top, key)
        inner == IF cur.kind = "object" THEN cur.members ELSE <<>>
        fits(v, kind) == v.kind \in {"null", kind}
        ok == /\ fits(lat, "number")
              /\ fits(lon, "number")
              /\ fits(cur, "object")
              /\ \A f \in DOMAIN Tags : fits(Member(inner, Tags[f]), KindOf(f))
    IN  IF ~ok
        THEN [err |-> "json: cannot unmarshal", v |-> NoResponse]
        ELSE [err |-> "nil",
              v |-> [Latitude  |-> lat.num,
                     Longitude |-> lon.num,
                     CurrentWeather |->
                         [f \in DOMAIN Tags |->
                             LET v == Member(inner, Tags[f])
                             IN  IF v.kind = "null" THEN Nil
                                 ELSE IF f = "Time" THEN Ptr(v.str) ELSE Ptr(v.num)]]]

\* (the weather object looked for under the key of the older API)
DecodeFromCurrentWeather(doc) == DecodeAt(doc, "current_weather")

\* weather.go:66-70, client.go:161-162  Decode(&apiResp): CurrentWeather is `json:"current"`
Decode(doc) == DecodeAt(doc, "current")

\* The `current` objects of the documents decoded: every field reported, one field
\* alone, none, members under the names of the older API only, and members of
\* the wrong kind
CurrentObjects ==
    {JObj([t \in {Tags[f] : f \in DOMAIN Tags} |->
              IF t = "time" THEN JStr(Format(Date(2025, 12, 29, 10, 0)))
              ELSE IF t = "is_day" THEN JNum(1) ELSE JNum(115)]),
     JObj([time |-> JStr(Format(Date(2025, 12, 29, 10, 0)))]),
     JObj([is_day |-> JNum(1)]),
     JObj([temperature_2m |-> JNum(115), rain |-> JNull]),
     JObj(<<>>),
     JObj([temperature |-> JNum(115), windspeed |-> JNum(3), weathercode |-> JNum(3)]),
     JObj([temperature_2m |-> JStr(<<"h", "o", "t">>)]),
     JNull,
     JNum(1)}

\* The `current_weather` objects of the older API
CurrentWeatherObjects ==
    {JObj(<<>>),
     JObj([time |-> JStr(Format(Date(2025, 12, 29, 10, 0))), temperature |-> JNum(115),
           windspeed |-> JNum(3), winddirection |-> JNum(180), is_day |-> JNum(1),
           weathercode |-> JNum(3)])}

\* The coordinates of the documents: given, absent, null, of the wrong kind
CoordinateMembers ==
    {[latitude |-> JNum(5252), longitude |-> JNum(1341)],
     <<>>,
     [latitude |-> JNull, longitude |-> JNum(1341)],
     [latitude |-> JStr(<<"5", "2">>), longitude |-> JNum(1341)]}

\* m with the member key: v added
With(m, key, v) == [k \in DOMAIN m \cup {key} |-> IF k = key THEN v ELSE m[k]]

\* The documents decoded
Bodies ==
    {JObj(c) : c \in CoordinateMembers}
        \cup {JObj(With(c, "current", cur)) : c \in CoordinateMembers, cur \in CurrentObjects}
        \cup {JObj(With(c, "current_weather", old)) :
                    c \in CoordinateMembers, old \in CurrentWeatherObjects}
        \cup {JObj(With(With(c, "current", cur), "current_weather", old)) :
                    c \in CoordinateMembers, cur \in CurrentObjects, old \in CurrentWeatherObjects}

-----------------------------------------------------------------------------
(* Error values with their chains.  Here the Cause of an Error is the error  *)
(* value itself (NilErr for nil), where the model of the calls keeps only the *)
(* name of the cause; an error of another package is known by its text.       *)

\* errors.New(text), fmt.Errorf(text): an error that wraps nothing
Leaf(text) == [dyn |-> "plain", Type |-> "", Message |-> text, Cause |-> NilErr]

\* fmt.Errorf(text + ": %w", inner): its text ends with the text of inner, and
\* its Unwrap returns inner
Wrapped(text, inner) ==
    [dyn |-> "wrap", Type |-> "", Message |-> text \o ": " \o inner.Message, Cause |-> inner]

RECURSIVE ErrorMethod(_)

\* (the cause left out of the text)
ErrorMethodWithoutCause(e) == e.Message

\* errors.go:38-43  func (e *Error) Error() string; err.Error() of the other errors
ErrorMethod(e) ==
    IF e.dyn = "*Error" /\ e.Cause # NilErr
    THEN e.Message \o ": " \o ErrorMethod(e.Cause)
    ELSE e.Message

RECURSIVE Is(_, _)

\* errors.Is(err, target): err is target, or the error its Unwrap method returns
\* is, and so on down the chain
Is(err, target) ==
    \/ err = target
    \/ /\ err.dyn \in {"*Error", "wrap"}
       /\ Unwrap(err) # NilErr
       /\ Is(Unwrap(err), target)

\* The errors of other packages that causes are made of
Leaves == {Leaf("context.Canceled"), Leaf("connection refused"), Leaf("root cause")}

\* The causes of the Error values examined: none, an error of another package
\* bare or wrapped, another Error with or without a cause of its own
Causes ==
    {NilErr} \cup Leaves
        \cup {Wrapped("wrapped", l) : l \in {Leaf("root cause"), Leaf("context.Canceled")}}
        \cup {Error(ErrorTypeAPI, "failed to parse JSON", NilErr),
              Error(ErrorTypeNetwork, "network timeout", Leaf("connection refused")),
              Error(ErrorTypeNetwork, "network timeout",
                    Wrapped("wrapped", Leaf("context.Canceled")))}

\* The Error values examined
Subjects ==
    {Error(t, text, c) : t \in ErrorTypes,
                         text \in {"invalid latitude", "network error", ""},
                         c \in Causes}

\* The errors looked for with errors.Is
Targets == (Causes \ {NilErr}) \cup {Leaf("unrelated")}

\* what was got from an Error: its text, its Unwrap, the targets errors.Is finds
Shown(text, unwrapped, is) ==
    [called |-> TRUE, text |-> text, unwrapped |-> unwrapped, is |-> is]

-----------------------------------------------------------------------------
(* NewClient and its options.  The http.Client objects and the channels live *)
(* in a heap and are known by their addresses: a Client holds the address of *)
(* its http.Client and of its semaphore, as the struct holds the pointer and *)
(* the channel.  Timeouts are in seconds.                                    *)

defaultTimeout == 10

EmptyHeap == [http |-> <<>>, chan |-> <<>>]

\* &http.Client{Timeout: t} allocated in h: the heap after it, and the address
NewHTTPClient(h, t) ==
    [h |-> [h EXCEPT !.http = Append(@, [Timeout |-> t])], addr |-> Len(h.http) + 1]

\* (one semaphore for the package: every Client is given the first channel made)
MakeChanShared(h) ==
    IF Len(h.chan) > 0
    THEN [h |-> h, addr |-> 1]
    ELSE [h |-> [h EXCEPT !.chan = Append(@, [len |-> 0, cap |-> maxConcurrent])], addr |-> 1]

\* client.go:52  make(chan struct{}, maxConcurrent): a new, empty channel
MakeChan(h) ==
    [h |-> [h EXCEPT !.chan = Append(@, [len |-> 0, cap |-> maxConcurrent])],
     addr |-> Len(h.chan) + 1]

\* The options, as values: which function made the Option and with what argument
WithTimeout(timeout) ==
    [opt |-> "WithTimeout", timeout |-> timeout, httpClient |-> 0, baseURL |-> ""]

WithHTTPClient(httpClient) ==
    [opt |-> "WithHTTPClient", timeout |-> 0, httpClient |-> httpClient, baseURL |-> ""]

WithBaseURL(url) ==
    [opt |-> "WithBaseURL", timeout |-> 0, httpClient |-> 0, baseURL |-> url]

\* opt(c): the closure an option returns, run on the Client c in the heap h.
\* WithTimeout writes through the pointer c.httpClient; the other two assign a
\* field of c.
Apply(o, st) ==
    CASE o.opt = "WithTimeout" ->
             [st EXCEPT !.h.http[st.c.httpClient].Timeout = o.timeout]
      [] o.opt = "WithHTTPClient" ->
             [st EXCEPT !.c.httpClient = o.httpClient]
      [] o.opt = "WithBaseURL" ->
             [st EXCEPT !.c.baseURL = o.baseURL]

RECURSIVE ApplyAllReversed(_, _)

\* (the options run from the last to the first)
ApplyAllReversed(opts, st) ==
    IF opts = <<>> THEN st ELSE Apply(Head(opts), ApplyAllReversed(Tail(opts), st))

RECURSIVE ApplyAll(_, _)

\* client.go:56-58  for _, opt := range opts { opt(c) }
ApplyAll(opts, st) ==
    IF opts = <<>> THEN st ELSE ApplyAll(Tail(opts), Apply(Head(opts), st))

\* client.go:46-61  NewClient(opts...) run in the heap h: the Client and the heap after it
NewClient(h, opts) ==
    LET hc == NewHTTPClient(h, defaultTimeout)
        ch == MakeChan(hc.h)
    IN  ApplyAll(opts, [c |-> [httpClient |-> hc.addr,
                               baseURL    |-> defaultBaseURL,
                               semaphore  |-> ch.addr],
                        h |-> ch.h])

\* The http.Client objects the caller owns before any Client is made: one with a
\* timeout of 20 s, one with 10 s (options_test.go:21, 77)
CallerHeap == [http |-> <<[Timeout |-> 20], [Timeout |-> 10]>>, chan |-> <<>>]

\* The options a caller passes
Options ==
    {WithTimeout(5), WithTimeout(15), WithHTTPClient(1), WithHTTPClient(2),
     WithBaseURL("http://127.0.0.1:8080")}

MaxOptions == 2

RECURSIVE ListsUpTo(_)

\* the lists of at most k options
ListsUpTo(k) ==
    IF k = 0 THEN {<<>>}
    ELSE ListsUpTo(k - 1) \cup {Append(l, o) : l \in ListsUpTo(k - 1), o \in Options}

OptionLists == ListsUpTo(MaxOptions)

\* A Client as NewClient returned it, with the options it was made with
Built(c, opts) == [c |-> c, opts |-> opts]

\* c.httpClient.Timeout, the timeout the requests of the Client run under
Timeout(h, c) == h.http[c.httpClient].Timeout

\* len(c.semaphore)
Slots(h, c) == h.chan[c.semaphore].len

-----------------------------------------------------------------------------
(* The values of what a specification leaves out *)

NoSubject == NilErr

NoShown == [called |-> FALSE, text |-> "", unwrapped |-> NilErr, is |-> {}]

NoBody == [kind |-> "none", num |-> 0, str |-> <<>>, members |-> <<>>]

BuilderIdle == args = NoArgs /\ req = NoRequest

ErrorsIdle == subject = NoSubject /\ shown = NoShown

DecoderIdle == respBody = NoBody

ConstructionIdle == heap = EmptyHeap /\ built = <<>> /\ holding = <<>>

ClientIdle ==
    /\ baseURL = defaultBaseURL
    /\ semaphore = 0
    /\ calls = EmptyBag
    /\ ret = NoReturn
    /\ exchange = NoExchange

HarnessIdle == n = 0 /\ launched = 0 /\ successCount = 0 /\ failCount = 0

ConverterIdle == apiResp = NoResponse /\ cw = NoSnapshot

-----------------------------------------------------------------------------
(* NewClient *)

Init ==
    /\ baseURL \in BaseURLs
    /\ semaphore = 0
    /\ calls = EmptyBag
    /\ ret = NoReturn
    /\ exchange = NoExchange
    /\ n = 0
    /\ launched = 0
    /\ successCount = 0
    /\ failCount = 0
    /\ apiResp = NoResponse
    /\ cw = NoSnapshot
    /\ BuilderIdle
    /\ ErrorsIdle
    /\ DecoderIdle
    /\ ConstructionIdle

-----------------------------------------------------------------------------
(* GetCurrentWeather, from its entry to the call of httpClient.Do *)

\* (the release tied to the success path only: an early return keeps the slot)
AdmittedLeak(ctx) ==
    IF ~UrlParses(baseURL)
    THEN /\ Return("nil", Error(ErrorTypeValidation, "failed to build request URL", "parse error"))
         /\ exchange' = NoExchange
         /\ semaphore' = Acquire(semaphore)
         /\ UNCHANGED calls
    ELSE \E newRequestErr \in BOOLEAN :
         IF newRequestErr
         THEN /\ Return("nil", Error(ErrorTypeNetwork, "failed to create HTTP request", "net/http error"))
              /\ exchange' = NoExchange
              /\ semaphore' = Acquire(semaphore)
              /\ UNCHANGED calls
         ELSE IF ctx # "live"
         THEN /\ Return("nil", ExecuteError(CtxErr(ctx)))
              /\ exchange' = Exchange(1, CtxErr(ctx), 0, "none", "none")
              /\ semaphore' = Acquire(semaphore)
              /\ UNCHANGED calls
         ELSE /\ semaphore' = Acquire(semaphore)
              /\ calls' = calls (+) SetToBag({InFlight(ctx)})
              /\ UNCHANGED <<ret, exchange>>

\* client.go:120-148 for a call that holds a slot: it returns, releasing the slot,
\* or blocks in the round trip.
Admitted(ctx) ==
    IF ~UrlParses(baseURL)
    THEN /\ Return("nil", Error(ErrorTypeValidation, "failed to build request URL", "parse error"))
         /\ exchange' = NoExchange
         /\ semaphore' = Release(Acquire(semaphore))
         /\ UNCHANGED calls
    ELSE \E newRequestErr \in BOOLEAN :
         IF newRequestErr
         THEN /\ Return("nil", Error(ErrorTypeNetwork, "failed to create HTTP request", "net/http error"))
              /\ exchange' = NoExchange
              /\ semaphore' = Release(Acquire(semaphore))
              /\ UNCHANGED calls
         ELSE IF ctx # "live"
         THEN /\ Return("nil", ExecuteError(CtxErr(ctx)))
              /\ exchange' = Exchange(1, CtxErr(ctx), 0, "none", "none")
              /\ semaphore' = Release(Acquire(semaphore))
              /\ UNCHANGED calls
         ELSE /\ semaphore' = Acquire(semaphore)
              /\ calls' = calls (+) SetToBag({InFlight(ctx)})
              /\ UNCHANGED <<ret, exchange>>

\* (admission moved in front of the validation of the coordinates)
GetCurrentWeatherAdmitsFirst(ctx, latitude, longitude) ==
    /\ UNCHANGED baseURL
    /\ \E case \in Select(semaphore, ctx) :
         CASE case = "send" ->
                  IF InvalidLatitude(latitude)
                  THEN /\ Return("nil", Error(ErrorTypeValidation, MsgLatitude(latitude), "nil"))
                       /\ exchange' = NoExchange
                       /\ UNCHANGED <<semaphore, calls>>
                  ELSE IF InvalidLongitude(longitude)
                  THEN /\ Return("nil", Error(ErrorTypeValidation, MsgLongitude(longitude), "nil"))
                       /\ exchange' = NoExchange
                       /\ UNCHANGED <<semaphore, calls>>
                  ELSE Admitted(ctx)
           [] case = "done" -> /\ Return("nil", PlainErr(CtxErr(ctx)))
                               /\ exchange' = NoExchange
                               /\ UNCHANGED <<semaphore, calls>>
           [] case = "default" -> /\ Return("nil", LimitError)
                                  /\ exchange' = NoExchange
                                  /\ UNCHANGED <<semaphore, calls>>

\* (the release deferred before the select, so that it runs on every return)
GetCurrentWeatherReleasesAlways(ctx, latitude, longitude) ==
    /\ UNCHANGED baseURL
    /\ IF InvalidLatitude(latitude)
       THEN /\ Return("nil", Error(ErrorTypeValidation, MsgLatitude(latitude), "nil"))
            /\ exchange' = NoExchange
            /\ UNCHANGED <<semaphore, calls>>
       ELSE IF InvalidLongitude(longitude)
       THEN /\ Return("nil", Error(ErrorTypeValidation, MsgLongitude(longitude), "nil"))
            /\ exchange' = NoExchange
            /\ UNCHANGED <<semaphore, calls>>
       ELSE \E case \in Select(semaphore, ctx) :
            CASE case = "send" -> Admitted(ctx)
              [] case = "done" -> /\ Return("nil", PlainErr(CtxErr(ctx)))
                                  /\ exchange' = NoExchange
                                  /\ semaphore > 0
                                  /\ semaphore' = Release(semaphore)
                                  /\ UNCHANGED calls
              [] case = "default" -> /\ Return("nil", LimitError)
                                     /\ exchange' = NoExchange
                                     /\ semaphore > 0
                                     /\ semaphore' = Release(semaphore)
                                     /\ UNCHANGED calls

\* client.go:92-173  GetCurrentWeather, up to the call of httpClient.Do
GetCurrentWeather(ctx, latitude, longitude) ==
    /\ UNCHANGED baseURL
    /\ IF InvalidLatitude(latitude)
       THEN /\ Return("nil", Error(ErrorTypeValidation, MsgLatitude(latitude), "nil"))
            /\ exchange' = NoExchange
            /\ UNCHANGED <<semaphore, calls>>
       ELSE IF InvalidLongitude(longitude)
       THEN /\ Return("nil", Error(ErrorTypeValidation, MsgLongitude(longitude), "nil"))
            /\ exchange' = NoExchange
            /\ UNCHANGED <<semaphore, calls>>
       ELSE \E case \in Select(semaphore, ctx) :
            CASE case = "send" -> Admitted(ctx)
              [] case = "done" -> /\ Return("nil", PlainErr(CtxErr(ctx)))
                                  /\ exchange' = NoExchange
                                  /\ UNCHANGED <<semaphore, calls>>
              [] case = "default" -> /\ Return("nil", LimitError)
                                     /\ exchange' = NoExchange
                                     /\ UNCHANGED <<semaphore, calls>>

\* (a failed round trip tried once more before the call gives up)
RespondRetries(s) ==
    /\ BagIn(s, calls)
    /\ UNCHANGED baseURL
    /\ \E do \in DoResults(s.ctx) :
         IF do.err # "nil" /\ s.requests = 1
         THEN /\ calls' = (calls (-) SetToBag({s})) (+) SetToBag({[s EXCEPT !.requests = 2]})
              /\ UNCHANGED <<semaphore, ret, exchange>>
         ELSE /\ calls' = calls (-) SetToBag({s})
              /\ semaphore' = Release(semaphore)
              /\ IF do.err # "nil"
                 THEN /\ Return("nil", ExecuteError(do.err))
                      /\ exchange' = Exchange(s.requests, do.err, 0, "none", "none")
                 ELSE IF do.status # StatusOK
                 THEN \E readErr \in ReadAllResults(s.ctx) :
                      /\ Return("nil", StatusError(do.status, BodyRead(readErr)))
                      /\ exchange' = Exchange(s.requests, "nil", do.status, readErr, "none")
                 ELSE \E decodeErr \in DecodeResults(s.ctx) :
                      /\ exchange' = Exchange(s.requests, "nil", do.status, "none", decodeErr)
                      /\ IF decodeErr # "nil"
                         THEN Return("nil", DecodeError(decodeErr))
                         ELSE Return("snapshot", NilErr)

(* GetCurrentWeather, from the return of httpClient.Do to its own return *)
Respond(s) ==
    /\ BagIn(s, calls)
    /\ calls' = calls (-) SetToBag({s})
    /\ semaphore' = Release(semaphore)
    /\ UNCHANGED baseURL
    /\ \E do \in DoResults(s.ctx) :
         IF do.err # "nil"
         THEN /\ Return("nil", ExecuteError(do.err))
              /\ exchange' = Exchange(s.requests, do.err, 0, "none", "none")
         ELSE IF do.status # StatusOK
         THEN \E readErr \in ReadAllResults(s.ctx) :
              /\ Return("nil", StatusError(do.status, BodyRead(readErr)))
              /\ exchange' = Exchange(s.requests, "nil", do.status, readErr, "none")
         ELSE \E decodeErr \in DecodeResults(s.ctx) :
              /\ exchange' = Exchange(s.requests, "nil", do.status, "none", decodeErr)
              /\ IF decodeErr # "nil"
                 THEN Return("nil", DecodeError(decodeErr))
                 ELSE Return("snapshot", NilErr)

(* The context of a call in flight ends: cancel() is called, or its deadline passes *)
Cancel(s, how) ==
    /\ BagIn(s, calls)
    /\ s.ctx = "live"
    /\ how \in CtxStates \ {"live"}
    /\ calls' = (calls (-) SetToBag({s})) (+) SetToBag({InFlight(how)})
    /\ UNCHANGED <<baseURL, semaphore, ret, exchange>>

CallStates == {InFlight(ctx) : ctx \in CtxStates}

CallStep ==
    /\ \E ctx \in CtxStates, p \in Coordinates : GetCurrentWeather(ctx, p.latitude, p.longitude)
    /\ UNCHANGED elsewhere

RespondStep ==
    /\ \E s \in CallStates : Respond(s)
    /\ UNCHANGED elsewhere

CancelStep ==
    /\ \E s \in CallStates, how \in CtxStates : Cancel(s, how)
    /\ UNCHANGED elsewhere

Next == CallStep \/ RespondStep \/ CancelStep

Spec == Init /\ [][Next]_vars

\* Every round trip ends (by response, timeout or cancellation), and the goroutine
\* that made it is scheduled to return.
Fairness == \A s \in CallStates : WF_vars(Respond(s) /\ UNCHANGED elsewhere)

LiveSpec == Spec /\ Fairness

-----------------------------------------------------------------------------
(* TestGetCurrentWeather_ConcurrentRequests and _ConcurrencyLimitExceeded: n    *)
(* goroutines call GetCurrentWeather(context.Background(), 0.0, 0.0) on a fresh *)
(* Client against a server that sleeps before it answers 200 with a good body:  *)
(* no answer comes before every goroutine has made its call.                    *)

MaxLaunch == 15

SlowInit ==
    /\ baseURL = defaultBaseURL
    /\ semaphore = 0
    /\ calls = EmptyBag
    /\ ret = NoReturn
    /\ exchange = NoExchange
    /\ n \in 1..MaxLaunch
    /\ launched = 0
    /\ successCount = 0
    /\ failCount = 0
    /\ apiResp = NoResponse
    /\ cw = NoSnapshot
    /\ BuilderIdle
    /\ ErrorsIdle
    /\ DecoderIdle
    /\ ConstructionIdle

\* The loop over the results: err == nil, or a *Error of type Validation
Count(r) ==
    /\ successCount' = successCount + (IF r.err.dyn = "nil" THEN 1 ELSE 0)
    /\ failCount' = failCount
            + (IF r.err.dyn = "*Error" /\ r.err.Type = ErrorTypeValidation THEN 1 ELSE 0)

Launch ==
    /\ launched < n
    /\ launched' = launched + 1
    /\ UNCHANGED <<n, converter, builder, errors, respBody, construction>>
    /\ GetCurrentWeather("live", Float(0), Float(0))
    /\ IF calls' = calls
       THEN ret'.err.Message # "failed to create HTTP request" /\ Count(ret')
       ELSE UNCHANGED <<successCount, failCount>>

Answer ==
    /\ launched = n
    /\ UNCHANGED <<n, launched, converter, builder, errors, respBody, construction>>
    /\ Respond(InFlight("live"))
    /\ ret' = [weather |-> "snapshot", err |-> NilErr]
    /\ Count(ret')

SlowNext == Launch \/ Answer

SlowSpec == SlowInit /\ [][SlowNext]_vars

-----------------------------------------------------------------------------
(* The converter on the responses it is given *)

ConvInit ==
    /\ baseURL = defaultBaseURL
    /\ semaphore = 0
    /\ calls = EmptyBag
    /\ ret = NoReturn
    /\ exchange = NoExchange
    /\ n = 0
    /\ launched = 0
    /\ successCount = 0
    /\ failCount = 0
    /\ apiResp \in WireResponses
    /\ cw = NoSnapshot
    /\ BuilderIdle
    /\ ErrorsIdle
    /\ DecoderIdle
    /\ ConstructionIdle

\* client.go:171  weather := c.convertToCurrentWeather(apiResp)
Convert ==
    /\ cw = NoSnapshot
    /\ cw' = Ptr(convertToCurrentWeather(apiResp))
    /\ UNCHANGED <<client, harness, apiResp, builder, errors, respBody, construction>>

ConvNext == Convert

ConvSpec == ConvInit /\ [][ConvNext]_vars

-----------------------------------------------------------------------------
(* The request builder on the coordinates and base URLs it is given *)

UrlInit ==
    /\ baseURL \in RequestBaseURLs
    /\ semaphore = 0
    /\ calls = EmptyBag
    /\ ret = NoReturn
    /\ exchange = NoExchange
    /\ HarnessIdle /\ ConverterIdle /\ ErrorsIdle /\ DecoderIdle /\ ConstructionIdle
    /\ args \in RequestPoints
    /\ req = NoRequest

\* client.go:120-138: the URL is built for the arguments of the call and the
\* request is made of it
BuildRequest ==
    /\ req = NoRequest
    /\ LET u == buildRequestURL(baseURL, args.latitude, args.longitude)
       IN  req' = IF u.err # "nil" THEN FailedRequest ELSE NewRequest(u)
    /\ UNCHANGED <<client, harness, converter, args, errors, respBody, construction>>

UrlNext == BuildRequest

UrlSpec == UrlInit /\ [][UrlNext]_vars

-----------------------------------------------------------------------------
(* The end of a call that was answered 200, on the documents it may be given *)

DecodeInit ==
    /\ ClientIdle /\ HarnessIdle /\ ConverterIdle /\ BuilderIdle /\ ErrorsIdle /\ ConstructionIdle
    /\ respBody \in Bodies

\* client.go:160-172: the body is decoded; a failure is returned as an API error,
\* a response that decoded is converted and returned
DecodeAndConvert ==
    /\ ret = NoReturn
    /\ LET d == Decode(respBody)
       IN  /\ apiResp' = d.v
           /\ exchange' = Exchange(1, "nil", StatusOK, "none", d.err)
           /\ IF d.err # "nil"
              THEN /\ Return("nil", DecodeError(d.err))
                   /\ UNCHANGED cw
              ELSE /\ cw' = Ptr(convertToCurrentWeather(d.v))
                   /\ Return("snapshot", NilErr)
    /\ UNCHANGED <<baseURL, semaphore, calls, harness, builder, errors, respBody, construction>>

DecodeNext == DecodeAndConvert

DecodeSpec == DecodeInit /\ [][DecodeNext]_vars

-----------------------------------------------------------------------------
(* The methods of Error on the values they may be called on *)

ErrInit ==
    /\ ClientIdle /\ HarnessIdle /\ ConverterIdle /\ BuilderIdle /\ DecoderIdle /\ ConstructionIdle
    /\ subject \in Subjects
    /\ shown = NoShown

\* err.Error(), err.Unwrap() and errors.Is(err, target) for every target
Inspect ==
    /\ ~shown.called
    /\ shown' = Shown(ErrorMethod(subject), Unwrap(subject),
                      {t \in Targets : Is(subject, t)})
    /\ UNCHANGED <<client, harness, converter, builder, subject, respBody, construction>>

ErrNext == Inspect

ErrSpec == ErrInit /\ [][ErrNext]_vars

-----------------------------------------------------------------------------
(* A caller making Clients, one after the other *)

NewInit ==
    /\ ClientIdle /\ HarnessIdle /\ ConverterIdle /\ BuilderIdle /\ ErrorsIdle /\ DecoderIdle
    /\ heap = CallerHeap
    /\ built = <<>>
    /\ holding = <<>>

\* client := NewClient(opts...)
Make(opts) ==
    /\ LET new == NewClient(heap, opts)
       IN  /\ heap' = new.h
           /\ built' = Append(built, Built(new.c, opts))
    /\ holding' = Append(holding, 0)
    /\ UNCHANGED <<client, harness, converter, builder, errors, respBody>>

\* the caller makes a Client
ConstructFirst(opts) == built = <<>> /\ Make(opts)

\* and then another one, in the heap the first was made in
ConstructSecond(opts) == Len(built) = 1 /\ Make(opts)

NewNext == \E opts \in OptionLists : ConstructFirst(opts) \/ ConstructSecond(opts)

NewSpec == NewInit /\ [][NewNext]_vars

-----------------------------------------------------------------------------
(* Two Clients of one program, each called by any number of goroutines.  A   *)
(* call is followed as far as its slot: turned away at the select, or        *)
(* admitted and, later, returned.                                            *)

\* The options the two Clients are made with
PoolOptionLists == {<<>>, <<WithHTTPClient(1)>>, <<WithTimeout(5)>>}

PoolInit ==
    /\ ClientIdle /\ HarnessIdle /\ ConverterIdle /\ BuilderIdle /\ ErrorsIdle /\ DecoderIdle
    /\ \E a \in PoolOptionLists, b \in PoolOptionLists :
         LET first == NewClient(CallerHeap, a)
             second == NewClient(first.h, b)
         IN  /\ heap = second.h
             /\ built = <<Built(first.c, a), Built(second.c, b)>>
    /\ holding = <<0, 0>>

\* (the deadline of the call written into the http.Client the Client uses)
CallOnSettingTimeout(i, ctx) ==
    /\ i \in 1..Len(built)
    /\ LET c == built[i].c
       IN  \E case \in Select(Slots(heap, c), ctx) :
             CASE case = "send" ->
                      /\ heap' = [heap EXCEPT !.chan[c.semaphore].len = Acquire(@),
                                              !.http[c.httpClient].Timeout = 0]
                      /\ holding' = [holding EXCEPT ![i] = @ + 1]
                      /\ UNCHANGED ret
               [] case = "done" ->
                      /\ Return("nil", PlainErr(CtxErr(ctx)))
                      /\ UNCHANGED <<heap, holding>>
               [] case = "default" ->
                      /\ Return("nil", LimitError)
                      /\ UNCHANGED <<heap, holding>>
    /\ UNCHANGED <<baseURL, semaphore, calls, exchange, built>>

\* client.go:107-118  the select of a call of built[i].GetCurrentWeather with valid
\* coordinates: a token is sent into the Client's own channel, or the call returns
CallOn(i, ctx) ==
    /\ i \in 1..Len(built)
    /\ LET c == built[i].c
       IN  \E case \in Select(Slots(heap, c), ctx) :
             CASE case = "send" ->
                      /\ heap' = [heap EXCEPT !.chan[c.semaphore].len = Acquire(@)]
                      /\ holding' = [holding EXCEPT ![i] = @ + 1]
                      /\ UNCHANGED ret
               [] case = "done" ->
                      /\ Return("nil", PlainErr(CtxErr(ctx)))
                      /\ UNCHANGED <<heap, holding>>
               [] case = "default" ->
                      /\ Return("nil", LimitError)
                      /\ UNCHANGED <<heap, holding>>
    /\ UNCHANGED <<baseURL, semaphore, calls, exchange, built>>

\* client.go:110, 120-172  an admitted call of built[i] returns, with a snapshot or
\* with an error, and its deferred receive takes a token out of the channel
ReturnOn(i) ==
    /\ i \in 1..Len(built)
    /\ holding[i] > 0
    /\ heap' = [heap EXCEPT !.chan[built[i].c.semaphore].len = Release(@)]
    /\ holding' = [holding EXCEPT ![i] = @ - 1]
    /\ \/ Return("snapshot", NilErr)
       \/ Return("nil", ExecuteError("connection refused"))
    /\ UNCHANGED <<baseURL, semaphore, calls, exchange, built>>

PoolCall ==
    /\ \E i \in 1..2, ctx \in CtxStates : CallOn(i, ctx)
    /\ UNCHANGED <<harness, converter, builder, errors, respBody>>

PoolReturn ==
    /\ \E i \in 1..2 : ReturnOn(i)
    /\ UNCHANGED <<harness, converter, builder, errors, respBody>>

PoolNext == PoolCall \/ PoolReturn

PoolSpec == PoolInit /\ [][PoolNext]_vars

TypeOK ==
    /\ semaphore \in 0..maxConcurrent
    /\ baseURL \in BaseURLs

-----------------------------------------------------------------------------
(* Vocabulary of the properties *)

\* x lies outside [lo, hi] (NaN lies nowhere on the line)
Outside(x, lo, hi) == ~x.nan /\ (x.v < lo \/ x.v > hi)

\* x lies in [lo, hi]
Within(x, lo, hi) == ~x.nan /\ lo <= x.v /\ x.v <= hi

ValidCoordinates(latitude, longitude) ==
    Within(latitude, 0 - 90, 90) /\ Within(longitude, 0 - 180, 180)

LimitExceeded == [weather |-> "nil", err |-> Error(ErrorTypeValidation, MsgLimit, "nil")]

CoordinateMessages ==
    {MsgLatitude(p.latitude) : p \in {q \in Coordinates : ~q.latitude.nan}}
        \cup {MsgLongitude(p.longitude) : p \in {q \in Coordinates : ~q.longitude.nan}}

ValidPoints == {p \in Coordinates : ValidCoordinates(p.latitude, p.longitude)}

BadPoints ==
    {p \in Coordinates : Outside(p.latitude, 0 - 90, 90) \/ Outside(p.longitude, 0 - 180, 180)}

\* This step started a round trip for a call with context ctx: the call holds
\* one more slot and is blocked in httpClient.Do.
WentInFlight(ctx) ==
    /\ semaphore' = semaphore + 1
    /\ calls' = calls (+) SetToBag({InFlight(ctx)})

\* The call of this step got through the select with a slot: it is in flight, or
\* it returned from code that runs with the slot held.
PassedAdmission(ctx) ==
    \/ WentInFlight(ctx)
    \/ /\ ret'.err.dyn = "*Error"
       /\ ret'.err.Message \in {"failed to build request URL", "failed to create HTTP request",
                                "failed to execute HTTP request"}
       /\ UNCHANGED <<semaphore, calls>>

\* This step returned without a slot ever held and without a request sent.
ReturnedAtOnce == UNCHANGED <<semaphore, calls>>

-----------------------------------------------------------------------------
\* C1: in every reachable state at most 10 calls hold an admission slot, and so
\* at most 10 HTTP requests of the Client are in flight.
AtMostTenInFlight ==
    /\ semaphore <= maxConcurrent
    /\ BagCardinality(calls) <= maxConcurrent

\* The pool is saturated: 10 requests in flight at once.
PoolSaturated == semaphore = maxConcurrent /\ BagCardinality(calls) = maxConcurrent

\* C2: at every moment the number of occupied slots equals the number of calls
\* between acquisition and return; every exit path after the acquisition (build
\* failure, request creation failure, transport failure, non-200, decode failure,
\* cancellation, success) has given its slot back when the call returns.
SlotsMatchCalls == semaphore = BagCardinality(calls) /\ semaphore >= 0

\* A call has returned on the decode-failure path while others are still in flight.
ReturnedWithOthersInFlight ==
    /\ ret.err.Message = "failed to parse JSON response"
    /\ semaphore = BagCardinality(calls)
    /\ semaphore > 0

\* C3: a call with valid coordinates and a live context that reaches the select
\* while all 10 slots are occupied returns at once with the limit-exceeded
\* Validation error; it takes no slot, sends no request, and no call is ever in a
\* waiting state (every call that has not returned is in its round trip).
FailFastWhenFull ==
    /\ [](\A s \in BagToSet(calls) : s.pc = "Do")
    /\ [][semaphore = maxConcurrent =>
            \A p \in ValidPoints :
                GetCurrentWeather("live", p.latitude, p.longitude)
                    => (ret' = LimitExceeded /\ ReturnedAtOnce)]_vars

\* A call was rejected by the full pool.
RejectedByFullPool == ret = LimitExceeded /\ PoolSaturated

\* C4 as stated: with a free slot a call with valid coordinates acquires a slot
\* and goes on to the HTTP request, whatever the state of its context.
AdmittedWheneverSlotFree ==
    [][semaphore < maxConcurrent =>
        \A ctx \in CtxStates :
            PassedAdmission(ctx)
                \/ \A p \in ValidPoints : ~GetCurrentWeather(ctx, p.latitude, p.longitude)]_vars

\* C4 as amended: with a free slot a call with valid coordinates and a live
\* context acquires a slot and goes on to the HTTP request; with a context that
\* has already ended it does the same or returns the context's error; it is never
\* rejected with the limit-exceeded error.
AdmittedOrCancelledWhenSlotFree ==
    [][semaphore < maxConcurrent =>
        \A ctx \in CtxStates :
            \/ PassedAdmission(ctx)
            \/ /\ ctx # "live"
               /\ ret' = [weather |-> "nil", err |-> PlainErr(CtxErr(ctx))]
               /\ ReturnedAtOnce
            \/ \A p \in ValidPoints : ~GetCurrentWeather(ctx, p.latitude, p.longitude)]_vars

\* A call whose context had ended returned the context's error although a slot
\* was free: nothing but such a call leaves this error with a pool not full.
CancelledWithSlotFree ==
    /\ ret.err = PlainErr("context.Canceled")
    /\ semaphore < maxConcurrent

\* C5: a call with valid coordinates whose context has already ended and that
\* reaches the select while all 10 slots are occupied returns the context's error
\* (context.Canceled or context.DeadlineExceeded), never the limit-exceeded error.
CancellationWinsWhenFull ==
    [][semaphore = maxConcurrent =>
        \A ctx \in CtxStates \ {"live"}, p \in ValidPoints :
            GetCurrentWeather(ctx, p.latitude, p.longitude)
                => /\ ret' = [weather |-> "nil", err |-> PlainErr(CtxErr(ctx))]
                   /\ ret'.err.Message \in {"context.Canceled", "context.DeadlineExceeded"}
                   /\ ReturnedAtOnce]_vars

\* A call returned the deadline error of its context from a full pool.
ExpiredAtFullPool == ret.err = PlainErr("context.DeadlineExceeded") /\ PoolSaturated

\* C6 as stated: every non-nil error GetCurrentWeather returns is a *Error whose
\* Type is one of ErrorTypeValidation, ErrorTypeNetwork, ErrorTypeAPI.
EveryErrorClassified ==
    ret.err.dyn # "nil" => (ret.err.dyn = "*Error" /\ ret.err.Type \in ErrorTypes)

GoodCoordinatesAccepted ==
    [][\A ctx \in CtxStates :
        \/ PassedAdmission(ctx)
        \/ /\ ReturnedAtOnce
           /\ \/ ret' = LimitExceeded
              \/ ctx # "live" /\ ret' = [weather |-> "nil", err |-> PlainErr(CtxErr(ctx))]
        \/ \A p \in ValidPoints : ~GetCurrentWeather(ctx, p.latitude, p.longitude)]_vars

\* The very first call on a Client is in its round trip.
FirstCallInFlight == ret = NoReturn /\ semaphore = 1 /\ BagIn(InFlight("live"), calls)

Min(a, b) == IF a <= b THEN a ELSE b

\* C9: n calls with valid coordinates and live contexts launched together on a
\* fresh Client against a slow endpoint that answers every request well: when all
\* have returned, min(n, 10) have succeeded and the other n - 10, if any, have
\* failed with the limit-exceeded Validation error (15 calls: 10 and 5).
TenSucceedRestRejected ==
    /\ failCount = launched - Min(launched, maxConcurrent)
    /\ (failCount > 0 /\ successCount = 0) => ret = LimitExceeded
    /\ (launched = n /\ calls = EmptyBag)
            => (successCount = Min(n, maxConcurrent) /\ failCount = n - Min(n, maxConcurrent))

\* Fifteen calls were launched and all have returned: 10 successes, 5 rejections.
FifteenLaunchedAllReturned ==
    /\ n = 15 /\ launched = n /\ calls = EmptyBag
    /\ successCount = 10 /\ failCount = 5

\* C10: as every round trip ends, every started call returns: once no more calls
\* are started, the Client comes to rest with no call in progress.  Whenever no
\* call is in progress all 10 slots are free, and a call with valid coordinates
\* and a live context made then is admitted, whatever came before.
SlotsComeBack ==
    /\ []<><<CallStep>>_vars \/ <>[](calls = EmptyBag /\ semaphore = 0)
    /\ [](calls = EmptyBag => semaphore = 0)
    /\ [][calls = EmptyBag =>
            \A p \in ValidPoints :
                GetCurrentWeather("live", p.latitude, p.longitude) => PassedAdmission("live")]_vars

\* The Client is at rest again after the pool had been used: a success was the
\* last return and nothing is in flight.
AtRestAfterUse == calls = EmptyBag /\ semaphore = 0 /\ ret.weather = "snapshot"

CancellationKeepsItsKind ==
    (\/ ret.err = PlainErr("context.Canceled")
     \/ exchange.err = "context.Canceled"
     \/ exchange.read = "context.Canceled"
     \/ exchange.decode = "context.Canceled")
        => /\ ret.weather = "nil"
           /\ ErrorsIs(ret.err, "context.Canceled")
           /\ ret.err.Type \notin {ErrorTypeValidation, ErrorTypeAPI}

\* C13: for an admitted call every failure of the round trip (connection error,
\* timeout, cancellation or deadline surfaced by the transport) comes back as a
\* *Error of type ErrorTypeNetwork whose Cause is the transport's error, which
\* Unwrap hands out; no snapshot comes with it.
TransportFailureWrapped ==
    exchange.err \notin {"none", "nil"}
        => /\ ret.weather = "nil"
           /\ ret.err.dyn = "*Error"
           /\ ret.err.Type = ErrorTypeNetwork
           /\ ret.err.Cause = exchange.err
           /\ Unwrap(ret.err) = exchange.err

\* A connection failure came back wrapped while other calls were in flight.
ConnectionRefusedWrapped ==
    /\ exchange.err = "connection refused"
    /\ ret.err = ExecuteError("connection refused")
    /\ semaphore > 0

\* msg has the decimal digits of status in it
HasStatusCode(msg, status) ==
    \E pre \in {"", "API returned status ", "API returned an error: "},
       body \in {BodyRead(r) : r \in {"nil", "context.Canceled"}} :
        \/ msg = pre \o ToString(status) \o ": " \o body
        \/ msg = pre \o body \o " (" \o ToString(status) \o ")"

\* C14: for an admitted call whose round trip succeeds, every status other than
\* 200 (400, 500, 503, and 201 too) gives a *Error of type ErrorTypeAPI whose
\* message has the numeric status code in it; the body is not decoded and no
\* snapshot is returned.
Non200IsAPIError ==
    (exchange.err = "nil" /\ exchange.status # StatusOK)
        => /\ ret.weather = "nil"
           /\ ret.err.dyn = "*Error"
           /\ ret.err.Type = ErrorTypeAPI
           /\ HasStatusCode(ret.err.Message, exchange.status)
           /\ exchange.decode = "none"

\* A 201 whose body was read to its end was turned into an API error.
CreatedIsAnError ==
    /\ exchange.status = 201
    /\ ret.err = StatusError(201, "Error: Bad Request")

\* C15: for an admitted call that gets status 200 with a body that fails to
\* decode, the call returns a *Error of type ErrorTypeAPI whose Cause is the
\* decode failure, and no snapshot.
MalformedBodyIsAPIError ==
    (exchange.status = StatusOK /\ exchange.decode \notin {"none", "nil"})
        => /\ ret.weather = "nil"
           /\ ret.err.dyn = "*Error"
           /\ ret.err.Type = ErrorTypeAPI
           /\ ret.err.Cause = exchange.decode

\* A malformed body on a 200 response was reported.
MalformedBodyReported ==
    /\ exchange = Exchange(1, "nil", StatusOK, "none", "invalid character")
    /\ ret.err.Cause = "invalid character"

\* C16: every return yields exactly one of a snapshot and an error; the snapshot
\* comes exactly when Do returned a response, its status was 200 and the body
\* decoded, which only a call that held a slot and was in its round trip gets
\* to; a call that returns without a round trip returns (nil, error).
SnapshotXorError ==
    /\ [](ret # NoReturn => (ret.weather = "nil" <=> ret.err.dyn # "nil"))
    /\ [](ret # NoReturn => ret.weather \in {"nil", "snapshot"})
    /\ [](ret.weather = "snapshot"
            <=> (exchange.err = "nil" /\ exchange.status = StatusOK /\ exchange.decode = "nil"))
    /\ [][(ret.weather # "snapshot" /\ ret'.weather = "snapshot")
            => /\ semaphore' = semaphore - 1
               /\ BagCardinality(calls') = BagCardinality(calls) - 1]_vars
    /\ [][calls' = calls => ret'.weather = "nil"]_vars

\* A snapshot was returned for a 200 response whose body decoded.
SnapshotAfterError ==
    /\ ret = [weather |-> "snapshot", err |-> NilErr]
    /\ exchange = Exchange(1, "nil", StatusOK, "none", "nil")

\* The returns of a call that was turned away before httpClient.Do
TurnedAway(r) ==
    \/ r = LimitExceeded
    \/ r.err.dyn = "plain"
    \/ r.err.Message \in CoordinateMessages
    \/ r.err.Message \in {"failed to build request URL", "failed to create HTTP request"}

\* C17: a call calls httpClient.Do at most once: once when it is admitted and the
\* URL and the request are built, never when validation, the full pool or a
\* context that has ended turns it away; a call that returns leaves no request
\* behind it (a failed request is not tried again), so the requests in flight
\* are one for each call that holds a slot.
OneRequestPerCall ==
    /\ [](\A s \in BagToSet(calls) : s.requests = 1)
    /\ [](exchange.requests = IF exchange.err = "none" THEN 0 ELSE 1)
    /\ []((ret # NoReturn /\ TurnedAway(ret)) => exchange.requests = 0)
    /\ []((ret # NoReturn /\ ~TurnedAway(ret)) => exchange.requests = 1)
    /\ [](BagCardinality(calls) = semaphore)
    /\ [][BagCardinality(calls') <= BagCardinality(calls) + 1]_vars
    /\ [][semaphore' < semaphore => BagCardinality(calls') = BagCardinality(calls) - 1]_vars

\* Ten requests are in flight and the call that returned last had failed in its
\* round trip, after one request.
FailedOnceWhileTenInFlight ==
    /\ PoolSaturated
    /\ exchange = Exchange(1, "Client.Timeout exceeded", 0, "none", "none")

\* The snapshot field each nullable numeric wire field belongs to
SnapshotField(f) ==
    CASE f = "Weathercode" -> "WeatherCode"
      [] f = "PressureMsl" -> "SeaLevelPressure"
      [] f = "Windspeed" -> "WindSpeed"
      [] f = "Winddirection" -> "WindDirection"
      [] OTHER -> f

\* Every numeric field of the snapshot is the wire value, or zero for null
NumbersNormalized ==
    \A k \in 1..Len(NumericFields) :
        LET wire == apiResp.CurrentWeather[NumericFields[k]]
        IN  Deref(cw)[SnapshotField(NumericFields[k])] = IF wire = Nil THEN 0 ELSE Deref(wire)

\* C18: for every wire response and every nullable numeric field (temperature,
\* humidity, apparent temperature, precipitation, rain, showers, snowfall, weather
\* code, cloud cover, sea-level pressure, surface pressure, wind speed, wind
\* direction, wind gusts) the snapshot field is the wire value unchanged when it
\* is present and zero when it is null; each wire field goes to its own snapshot
\* field, and latitude and longitude are copied.
NullsBecomeZero ==
    cw # NoSnapshot
        => /\ NumbersNormalized
           /\ Deref(cw).Latitude = apiResp.Latitude
           /\ Deref(cw).Longitude = apiResp.Longitude

\* Only the temperature was reported (and it was below zero): the snapshot has it,
\* with zero everywhere else.
OnlyTemperatureReported ==
    /\ cw # NoSnapshot
    /\ apiResp.CurrentWeather.Temperature = Ptr(0 - SampleValue(1))
    /\ apiResp.CurrentWeather.RelativeHumidity = Nil
    /\ Deref(cw).Temperature = 0 - SampleValue(1)
    /\ Deref(cw).RelativeHumidity = 0
    /\ Deref(cw).WeatherCode = 0
    /\ Deref(cw).IsDay = FALSE

\* C19: the snapshot's IsDay is true if and only if the wire is_day is present
\* and equals 1; 0, 2, a negative value and null all give false.
IsDayOnlyForOne ==
    cw # NoSnapshot
        => /\ Deref(cw).IsDay \in BOOLEAN
           /\ Deref(cw).IsDay <=> apiResp.CurrentWeather.IsDay = Ptr(1)

\* is_day = 2 was converted, to false.
TwoIsNotDay ==
    /\ cw # NoSnapshot
    /\ apiResp.CurrentWeather.IsDay = Ptr(2)
    /\ Deref(cw).IsDay = FALSE

\* The texts that stand for the date and time of day t in the layout
\* YYYY-MM-DDTHH:MM (the hour is also read without its leading zero)
Texts(t) == {Format(t)} \cup (IF t.hour < 10 THEN {FormatShortHour(t)} ELSE {})

\* C20: the conversion never fails on the timestamp: when the wire time is present
\* and is the text of an existing date and time of day in the layout
\* YYYY-MM-DDTHH:MM, the snapshot's Time is that date and time in UTC; when it is
\* null or is no such text, Time is the zero time, a snapshot is returned all the
\* same and its other fields are normalized as usual.
TimeParsedOrZero ==
    cw # NoSnapshot
        => LET time == apiResp.CurrentWeather.Time
               meant == {t \in Instants : time # Nil /\ Deref(time) \in Texts(t)}
           IN  /\ \A t \in meant : Deref(cw).Time = t /\ Deref(cw).Time.loc = "UTC"
               /\ meant = {} => Deref(cw).Time = ZeroTime
               /\ NumbersNormalized
               /\ Deref(cw).IsDay = (apiResp.CurrentWeather.IsDay = Ptr(1))

\* A response whose time is the 29th of February of 1900 was converted: zero time,
\* and the rest of the snapshot as reported.
BadDateGivesZeroTime ==
    /\ cw # NoSnapshot
    /\ apiResp.CurrentWeather.Time = Ptr(Format(Date(1900, 2, 29, 10, 0)))
    /\ Deref(cw).Time = ZeroTime
    /\ apiResp.CurrentWeather.WindGusts = Ptr(SampleValue(14))
    /\ Deref(cw).WindGusts = SampleValue(14)

-----------------------------------------------------------------------------
(* The request *)

\* The names of the measurements the upstream API is asked for, joined by commas
\* (client_test.go:24)
CurrentFields ==
    "temperature_2m,relative_humidity_2m,apparent_temperature,is_day,precipitation,rain,"
        \o "showers,snowfall,weather_code,cloud_cover,pressure_msl,surface_pressure,"
        \o "wind_speed_10m,wind_direction_10m,wind_gusts_10m"

\* C21: every request is a GET to {baseURL}/forecast whose query carries the
\* latitude and the longitude as the decimal values the caller passed,
\* current = the fixed list of the fifteen field names, temperature_unit =
\* celsius, wind_speed_unit = ms and precipitation_unit = mm.
RequestAsSpecified ==
    req.state = "built" =>
        /\ req.method = "GET"
        /\ req.path = baseURL \o "/forecast"
        /\ Get(req.query, "latitude") = FormatFloat(args.latitude)
        /\ Get(req.query, "longitude") = FormatFloat(args.longitude)
        /\ Get(req.query, "current") = CurrentFields
        /\ Get(req.query, "temperature_unit") = "celsius"
        /\ Get(req.query, "wind_speed_unit") = "ms"
        /\ Get(req.query, "precipitation_unit") = "mm"

-----------------------------------------------------------------------------
(* The order of the steps of a call *)

\* What validation answers for a point that is out of range: the latitude is
\* looked at first.
CoordinateError(p) ==
    [weather |-> "nil",
     err |-> Error(ErrorTypeValidation,
                   IF Outside(p.latitude, 0 - 90, 90) THEN MsgLatitude(p.latitude)
                                                      ELSE MsgLongitude(p.longitude),
                   "nil")]

\* What the call that returned last reports is the failure of the first step
\* that failed: nothing was sent for a call turned away at validation or at
\* admission, a failed round trip has no status, a status other than 200 stops
\* the call before the decoding, and only a decoded 200 gives a snapshot.
FirstFailureDecides ==
    /\ (ret = LimitExceeded \/ ret.err.dyn = "plain" \/ ret.err.Message \in CoordinateMessages)
            => exchange = NoExchange
    /\ exchange.err \notin {"none", "nil"}
            => /\ exchange.status = 0
               /\ exchange.decode = "none"
               /\ ret.err.Type = ErrorTypeNetwork
    /\ exchange.status \notin {0, StatusOK}
            => /\ exchange.decode = "none"
               /\ ret.err.Type = ErrorTypeAPI
               /\ HasStatusCode(ret.err.Message, exchange.status)
    /\ exchange.decode \notin {"none", "nil"}
            => /\ exchange.status = StatusOK
               /\ ret.weather = "nil"
               /\ ret.err.Type = ErrorTypeAPI
    /\ ret.weather = "snapshot" => exchange.status = StatusOK /\ exchange.decode = "nil"

\* C27: the steps of a call run in a fixed order (validation, admission, HTTP
\* request, status check, decode, normalization) and the first one that fails
\* decides the result: a call with an out-of-range coordinate returns the
\* coordinate Validation error whatever the state of the pool and of its
\* context, and with both coordinates out of range the error names the latitude.
ValidationDecidesFirst ==
    /\ []FirstFailureDecides
    /\ [][\A ctx \in CtxStates, p \in BadPoints :
              GetCurrentWeather(ctx, p.latitude, p.longitude)
                  => /\ ret' = CoordinateError(p)
                     /\ exchange' = NoExchange
                     /\ ReturnedAtOnce]_vars

\* Both coordinates were out of range while the ten slots were taken: the call
\* was answered with the latitude error.
LatitudeNamedAtFullPool ==
    /\ ret = CoordinateError(Point(Float(91), Float(181)))
    /\ ret.err.Message = MsgLatitude(Float(91))
    /\ PoolSaturated

-----------------------------------------------------------------------------
(* Calls that return without a slot *)

\* C28: a call that returns without having acquired a slot (coordinate error,
\* limit exceeded, cancellation at admission) leaves the number of occupied
\* slots as it was: it never gives back a slot another call holds, so the count
\* is never negative and never below the number of admitted calls in progress.
SlotlessReturnKeepsCount ==
    /\ [](semaphore >= 0 /\ semaphore >= BagCardinality(calls))
    /\ [][\/ semaphore' = semaphore
          \/ calls' # calls
          \/ ~(ret' = LimitExceeded \/ ret'.err.dyn = "plain"
                    \/ ret'.err.Message \in CoordinateMessages)
          \/ \A ctx \in CtxStates, p \in Coordinates :
                 ~GetCurrentWeather(ctx, p.latitude, p.longitude)]_vars

\* A call was turned away by the full pool, and the ten calls in flight still
\* hold their ten slots.
RejectedWhileTenHoldSlots ==
    /\ ret = LimitExceeded
    /\ semaphore = maxConcurrent
    /\ BagCardinality(calls) = maxConcurrent
    /\ exchange = NoExchange

-----------------------------------------------------------------------------
(* A 200 response without the weather object *)

\* The document has no weather object the decoder can see: no `current` member,
\* or null, or an object none of whose members a field is tagged with.
NoCurrentObject(doc) ==
    \/ "current" \notin DOMAIN doc.members
    \/ doc.members["current"].kind = "null"
    \/ /\ doc.members["current"].kind = "object"
       /\ \A f \in DOMAIN Tags : Tags[f] \notin DOMAIN doc.members["current"].members

\* The number a document gives for a coordinate, 0 when it gives none
BodyNumber(doc, key) ==
    IF key \in DOMAIN doc.members /\ doc.members[key].kind = "number"
    THEN doc.members[key].num ELSE 0

-----------------------------------------------------------------------------
(* The Error type *)

\* The errors below e, one Unwrap after the other, to the depth the values
\* examined have
ChainBelow(e) ==
    LET c1 == e.Cause
        c2 == IF c1 # NilErr THEN c1.Cause ELSE NilErr
        c3 == IF c2 # NilErr THEN c2.Cause ELSE NilErr
    IN  {c1, c2, c3} \ {NilErr}

\* The text of a cause, as its own Error method gives it
CauseText(c) ==
    IF c.dyn = "*Error" /\ c.Cause # NilErr
    THEN c.Message \o ": " \o c.Cause.Message
    ELSE c.Message

\* C26: for every Error, Unwrap returns the Cause (nil when there is none);
\* Error() gives the Message alone when the Cause is nil and "Message: cause"
\* otherwise; errors.Is applied to the Error finds every error of the chain
\* below its Cause and no error outside it.
ErrorShowsItsChain ==
    shown.called =>
        /\ shown.unwrapped = subject.Cause
        /\ shown.text = IF subject.Cause = NilErr
                        THEN subject.Message
                        ELSE subject.Message \o ": " \o CauseText(subject.Cause)
        /\ \A t \in Targets : t \in shown.is <=> t \in ChainBelow(subject)

\* An Error whose cause wraps context.Canceled was examined: both were found,
\* and its text ends with the text of the cause.
WrappedCauseFound ==
    /\ shown.called
    /\ subject = Error(ErrorTypeAPI, "network error", Wrapped("wrapped", Leaf("context.Canceled")))
    /\ shown.text = "network error: wrapped: context.Canceled"
    /\ shown.is = {Leaf("context.Canceled"), Wrapped("wrapped", Leaf("context.Canceled"))}

-----------------------------------------------------------------------------
(* Construction *)

\* The positions of the list at which an option of one of the kinds stands
Positions(opts, kinds) == {i \in 1..Len(opts) : opts[i].opt \in kinds}

\* The last option of one of the kinds (there is one)
LastOf(opts, kinds) ==
    opts[CHOOSE i \in Positions(opts, kinds) : \A j \in Positions(opts, kinds) : j <= i]

\* Some WithTimeout of the list comes after a WithHTTPClient
TimeoutAfterClient(opts) ==
    \E i \in Positions(opts, {"WithHTTPClient"}), j \in Positions(opts, {"WithTimeout"}) : i < j

\* The Client made last
Latest == built[Len(built)]

ProvidedTimeoutIgnored ==
    (built # <<>> /\ Positions(Latest.opts, {"WithHTTPClient"}) # {}) =>
        Timeout(heap, Latest.c) =
            IF Positions(Latest.opts, {"WithTimeout"}) = {} THEN defaultTimeout
            ELSE LastOf(Latest.opts, {"WithTimeout"}).timeout

\* C30: making a Client never modifies an object owned by the caller or by
\* another Client: NewClient(WithHTTPClient(h), WithTimeout(t)) leaves h.Timeout
\* as the caller set it, and two Clients made from the same h keep independent
\* timeouts.
CallerObjectsUntouched ==
    /\ \A a \in DOMAIN CallerHeap.http : heap.http[a] = CallerHeap.http[a]
    /\ \A i \in 1..Len(built) :
          Positions(built[i].opts, {"WithTimeout"}) # {}
              /\ LastOf(built[i].opts, {"WithTimeout", "WithHTTPClient"}).opt = "WithTimeout"
          => Timeout(heap, built[i].c) = LastOf(built[i].opts, {"WithTimeout"}).timeout

-----------------------------------------------------------------------------
(* Two Clients *)

\* C24: each Client owns its own pool of 10 slots: the calls on one Client,
\* even when they take all its slots, leave the number of occupied slots of
\* another Client as it is and never make a call on the other Client fail with
\* the limit-exceeded error.
PoolsIndependent ==
    /\ [](/\ built[1].c.semaphore # built[2].c.semaphore
          /\ \A i \in 1..2 : Slots(heap, built[i].c) = holding[i])
    /\ [][\A i \in 1..2, ctx \in CtxStates :
              (CallOn(i, ctx) /\ holding' = holding /\ ret' = LimitExceeded)
                  => holding[i] = maxConcurrent]_vars

\* The first Client is saturated and has turned a call away, and a call on the
\* second Client was admitted all the same.
OtherClientStillAdmits ==
    /\ holding = <<maxConcurrent, 1>>
    /\ Slots(heap, built[2].c) = 1
    /\ ret = LimitExceeded

\* C25: GetCurrentWeather never changes the configuration of the Client (base
\* URL, HTTP client and its timeout, capacity of the semaphore): after any
\* sequence of calls they are what construction made them, and only the
\* number of occupied slots changes.
ConfigurationFixed ==
    [][/\ built' = built
       /\ heap'.http = heap.http
       /\ Len(heap'.chan) = Len(heap.chan)
       /\ \A a \in DOMAIN heap.chan : heap'.chan[a].cap = heap.chan[a].cap]_vars

\* Calls have been admitted, turned away and returned on a Client made with
\* WithTimeout(5), and its timeout is 5 s.
ConfiguredAfterCalls ==
    /\ built[1].opts = <<WithTimeout(5)>>
    /\ Timeout(heap, built[1].c) = 5
    /\ built[1].c.baseURL = defaultBaseURL
    /\ holding[1] = 3
    /\ ret = [weather |-> "snapshot", err |-> NilErr]

====
